---- MODULE Spec2Model ----
(***************************************************************************)
(* A model of the session multiplexing layer of the dHub RPC client        *)
(* (src/index.js): the Sessions registry, the RemoteDDatabase proxies with *)
(* the open/close life cycle they inherit from Nanoresource, the push      *)
(* notifications RemoteBasestore dispatches by session id, and the         *)
(* extension channels.                                                     *)
(*                                                                         *)
(* The RPC channel is seen from the client: `wire` holds the requests and  *)
(* notifications the last step handed to this._client, a response or a     *)
(* push notification of the daemon is a step of its own.  A request that   *)
(* awaits its response is in flight: the open request of a proxy while the *)
(* proxy is opening, its close request while it is closing, a data request *)
(* while its operation is in phase "sent".                                 *)
(*                                                                         *)
(* Block payloads, keys, discoveryKey, writable and the value codecs are   *)
(* passed through by the code and read by none of the operations modelled  *)
(* here; they are left out of the state.                                   *)
(***************************************************************************)
EXTENDS Integers, Sequences, FiniteSets, TLC

\* ---------------------------------------------------------------- bounds
NumProxies == 2       \* RemoteDDatabase objects the application constructs
MaxOps == 2           \* calls of the application that may await a result
MaxSessions == 3      \* session ids the counter may issue
MaxRes == 3           \* resource ids createResourceId may issue
OpsRes == 2           \* resource ids issued where one feed is constructed
NumStores == 2        \* the store and its namespaces
NumKeys == 2          \* distinct remote public keys of peers
MaxPeers == 2         \* peers the daemon reports for one feed
MaxLen == 1           \* feed lengths the daemon reports
MaxBytes == 1         \* feed byte lengths the daemon reports

Proxies == 1..NumProxies
Slots == 1..MaxOps
Keys == 1..NumKeys
Ids == 0..MaxSessions         \* ids a notification may carry, bound or not
ResIds == 0..(MaxRes - 1)

\* `undefined` of JavaScript, for this._id of a lazy feed that never opened
Undef == -1
\* an object that no download returned: its resourceId is not a number
NotDownload == -3
NoProxy == 0
NoErr == "none"

ErrInvalidId == "Invalid RemoteDDatabase ID."
ErrPeer == "A peer was removed that was not previously added."
ErrFeedClosed == "Feed is closed"
ErrResourceClosed == "Resource is closed"
ErrLock == "Cannot acquire a lock for an unopened feed"
ErrRemote == "remote failure"
ErrTypeError == "TypeError"
ErrUndownload == "Must pass a download return value"

\* the operations that start with `if (!this.opened) await this.open()`
DataKinds == {"append", "get", "update", "seek", "has",
              "download", "undownload", "downloaded"}

VARIABLES
  sessions,   \* the Sessions object shared by the basestore and its feeds
  feeds,      \* feeds[p]: the fields of RemoteDDatabase p
  ops,        \* ops[o]: a call of the application that awaits a result
  exts,       \* exts[r]: the RemoteExtension with resourceId r
  closeSent,  \* closeSent[p]: a close request has left for feed p (history)
  wire,       \* what the last step sent on the RPC channel, in order
  emitted,    \* the events the last step emitted, in order
  thrown,     \* the error the last step raised (or rejected with at once)
  last        \* the call, response or notification the last step handled

vars == <<sessions, feeds, ops, exts, closeSent, wire, emitted, thrown, last>>

\* ---------------------------------------------------------------- Sessions

\* create with `this._counter` in place of `this._counter++`
createMutNoInc(s, remoteBase) ==
  LET reuse == Len(s.freeList) > 0
      id == IF reuse THEN s.freeList[Len(s.freeList)] ELSE s.counter
  IN [id |-> id,
      sessions |-> [s EXCEPT !.freeList = IF reuse THEN SubSeq(@, 1, Len(@) - 1) ELSE @,
                             !.remoteBases = (id :> remoteBase) @@ @]]

\* create with `this._freeList.shift()` in place of `this._freeList.pop()`
createMutShift(s, remoteBase) ==
  LET reuse == Len(s.freeList) > 0
      id == IF reuse THEN Head(s.freeList) ELSE s.counter
  IN [id |-> id,
      sessions |-> [s EXCEPT !.freeList = IF reuse THEN Tail(@) ELSE @,
                             !.counter = IF reuse THEN @ ELSE @ + 1,
                             !.remoteBases = (id :> remoteBase) @@ @]]

\* Sessions.create: pop the free list, else the next counter value
create(s, remoteBase) ==
  LET reuse == Len(s.freeList) > 0
      id == IF reuse THEN s.freeList[Len(s.freeList)] ELSE s.counter
  IN [id |-> id,
      sessions |-> [s EXCEPT !.freeList = IF reuse THEN SubSeq(@, 1, Len(@) - 1) ELSE @,
                             !.counter = IF reuse THEN @ ELSE @ + 1,
                             !.remoteBases = (id :> remoteBase) @@ @]]

\* createResourceId with `this._resourceCounter` in place of
\* `this._resourceCounter++`
createResourceIdMutNoInc(s) ==
  [id |-> s.resourceCounter, sessions |-> s]

\* Sessions.createResourceId
createResourceId(s) ==
  [id |-> s.resourceCounter,
   sessions |-> [s EXCEPT !.resourceCounter = @ + 1]]

\* Sessions.delete
delete(s, id) ==
  [s EXCEPT !.remoteBases = [i \in (DOMAIN @) \ {id} |-> @[i]],
            !.freeList = Append(@, id)]

\* a lookup that falls back to the first feed for an id it does not hold
getMutFirst(s, id) == IF id \in DOMAIN s.remoteBases THEN s.remoteBases[id] ELSE 1

\* Sessions.get; the undefined of a missing key is NoProxy
get(s, id) == IF id \in DOMAIN s.remoteBases THEN s.remoteBases[id] ELSE NoProxy

\* ---------------------------------------------------------------- messages

OpenReq(id) == [type |-> "open", id |-> id]
CloseReq(id) == [type |-> "close", id |-> id]
DataReq(kind, id, rid) == [type |-> kind, id |-> id, resourceId |-> rid]
LockReq(id) == [type |-> "acquireLock", id |-> id]
ReleaseReq(id) == [type |-> "releaseLockNoReply", id |-> id]
RegisterReq(id, rid) == [type |-> "registerExtensionNoReply", id |-> id, resourceId |-> rid]

RECURSIVE minMax(_, _, _, _)
RECURSIVE minMaxMutInclusive(_, _, _, _)
UpdateReq(id, minLength) == [type |-> "update", id |-> id, minLength |-> minLength]
DownloadReq(id, rid, range) ==
  [type |-> "download", id |-> id, resourceId |-> rid, start |-> range.a,
   end |-> range.b, hasBlocks |-> range.hasBlocks, blocks |-> range.blocks]
SendReq(id, rid, remotePublicKey) ==
  [type |-> "sendExtensionNoReply", id |-> id, resourceId |-> rid,
   remotePublicKey |-> remotePublicKey]

Types(w) == {w[i].type : i \in 1..Len(w)}

\* ---------------------------------------------------------------- state

NoFeed ==
  [made |-> FALSE, lazy |-> FALSE, id |-> Undef,
   opening |-> FALSE, opened |-> FALSE, closing |-> FALSE, closed |-> FALSE,
   preclosing |-> FALSE, emits |-> "none",
   length |-> 0, byteLength |-> 0, peers |-> <<>>, extensions |-> {}]

\* the arguments a pending call keeps across its await: t is the JavaScript
\* type of the value (update) or "range" (download), a and b are minLength,
\* or start and end, Absent for a property that is not set
Absent == -2
Arg(t, a, b, hasBlocks, blocks) ==
  [t |-> t, a |-> a, b |-> b, hasBlocks |-> hasBlocks, blocks |-> blocks]
NoArg == Arg("none", Absent, Absent, FALSE, <<>>)

FreeSlot ==
  [p |-> NoProxy, kind |-> "none", phase |-> "free", rid |-> Undef, arg |-> NoArg]

NoExt == [feed |-> NoProxy, regs |-> 0]

\* what `last` records of a step: the handler and the feed it ran on
Call(op, p) ==
  [op |-> op, p |-> p]

Init ==
  /\ sessions = [counter |-> 0, resourceCounter |-> 0, freeList |-> <<>>,
                 remoteBases |-> <<>>]
  /\ feeds = [p \in Proxies |-> NoFeed]
  /\ ops = [o \in Slots |-> FreeSlot]
  /\ exts = [r \in ResIds |-> NoExt]
  /\ closeSent = [p \in Proxies |-> FALSE]
  /\ wire = <<>>
  /\ emitted = <<>>
  /\ thrown = NoErr
  /\ last = Call("init", NoProxy)

\* ---------------------------------------------------------------- Nanoresource

\* room for one more session id (the bound on sessions.counter)
CanCreate(s) == Len(s.freeList) > 0 \/ s.counter < MaxSessions

\* RemoteDDatabase._open up to its await: a lazy feed takes its session id
\* here, then the open request leaves with this._id
openStart(s, f, p) ==
  LET c == IF f.lazy THEN create(s, p) ELSE [id |-> f.id, sessions |-> s]
  IN [sessions |-> c.sessions,
      feed |-> [f EXCEPT !.id = c.id],
      sent |-> <<OpenReq(c.id)>>]

\* open without the queue of the open in flight: every call on an unopened
\* feed runs _open
openMutNoQueue(s, f, p) ==
  IF f.closing \/ f.closed
    THEN [sessions |-> s, feed |-> f, sent |-> <<>>, res |-> "closed"]
  ELSE IF f.opened
    THEN [sessions |-> s, feed |-> f, sent |-> <<>>, res |-> "opened"]
  ELSE LET r == openStart(s, [f EXCEPT !.opening = TRUE], p)
       IN [sessions |-> r.sessions, feed |-> r.feed, sent |-> r.sent, res |-> "pending"]

\* Nanoresource.open as RemoteDDatabase inherits it.  res is what the caller
\* gets: "closed" an error at once, "opened" success at once, "pending" a
\* place in the queue of the one open in flight (which this call starts when
\* there is none).
open(s, f, p) ==
  IF f.closing \/ f.closed
    THEN [sessions |-> s, feed |-> f, sent |-> <<>>, res |-> "closed"]
  ELSE IF f.opened
    THEN [sessions |-> s, feed |-> f, sent |-> <<>>, res |-> "opened"]
  ELSE IF f.opening
    THEN [sessions |-> s, feed |-> f, sent |-> <<>>, res |-> "pending"]
  ELSE LET r == openStart(s, [f EXCEPT !.opening = TRUE], p)
       IN [sessions |-> r.sessions, feed |-> r.feed, sent |-> r.sent, res |-> "pending"]

\* open(s, f, p) would call _open on a lazy feed, which needs a session id
StartsLazyOpen(f) ==
  f.lazy /\ ~f.closing /\ ~f.closed /\ ~f.opened /\ ~f.opening

\* close that runs _close on a feed that was never opened
closeMutRunsUnopened(f) ==
  IF f.closed THEN [feed |-> f, sent |-> <<>>]
  ELSE IF f.opening THEN [feed |-> [f EXCEPT !.preclosing = TRUE], sent |-> <<>>]
  ELSE IF f.closing THEN [feed |-> f, sent |-> <<>>]
  ELSE [feed |-> [f EXCEPT !.closing = TRUE], sent |-> <<CloseReq(f.id)>>]

\* close without the queue of the close in flight: every call on an open feed
\* runs _close
closeMutNoQueue(f) ==
  IF f.closed THEN [feed |-> f, sent |-> <<>>]
  ELSE IF f.opening THEN [feed |-> [f EXCEPT !.preclosing = TRUE], sent |-> <<>>]
  ELSE IF ~f.opened THEN [feed |-> [f EXCEPT !.closed = TRUE], sent |-> <<>>]
  ELSE [feed |-> [f EXCEPT !.closing = TRUE], sent |-> <<CloseReq(f.id)>>]

\* Nanoresource.close as RemoteDDatabase inherits it: a no-op once closed,
\* queued behind an open in flight, closed without _close when the feed never
\* opened, queued behind a close in flight, else _close runs up to its await
\* and the close request leaves.
close(f) ==
  IF f.closed THEN [feed |-> f, sent |-> <<>>]
  ELSE IF f.opening THEN [feed |-> [f EXCEPT !.preclosing = TRUE], sent |-> <<>>]
  ELSE IF ~f.opened THEN [feed |-> [f EXCEPT !.closed = TRUE], sent |-> <<>>]
  ELSE IF f.closing THEN [feed |-> f, sent |-> <<>>]
  ELSE [feed |-> [f EXCEPT !.closing = TRUE], sent |-> <<CloseReq(f.id)>>]

\* ---------------------------------------------------------------- slots

FreeSlots == {o \in Slots : ops[o].phase = "free"}
NewSlot == CHOOSE o \in FreeSlots : \A x \in FreeSlots : o <= x
SlotArg(p, kind, phase, rid, arg) ==
  [p |-> p, kind |-> kind, phase |-> phase, rid |-> rid, arg |-> arg]
Slot(p, kind, phase, rid) == SlotArg(p, kind, phase, rid, NoArg)

\* ---------------------------------------------------------------- construction

\* the constructor with `this._id = this._sessions.create(this)` for every
\* feed, lazy or not
RemoteDDatabaseMutEagerId(p, lz) ==
  /\ ~feeds[p].made
  /\ \A q \in Proxies : q < p => feeds[q].made
  /\ CanCreate(sessions)
  /\ LET c == create(sessions, p)
         f == [NoFeed EXCEPT !.made = TRUE, !.lazy = lz, !.id = c.id]
         r == IF lz THEN [sessions |-> c.sessions, feed |-> f, sent |-> <<>>]
                    ELSE open(c.sessions, f, p)
     IN /\ sessions' = r.sessions
        /\ feeds' = [feeds EXCEPT ![p] = r.feed]
        /\ wire' = r.sent
  /\ emitted' = <<>>
  /\ thrown' = NoErr
  /\ last' = Call("new", p)
  /\ UNCHANGED <<ops, exts, closeSent>>

\* RemoteBasestore.get -> new RemoteDDatabase(client, sessions, key, opts):
\* an eager feed takes its session id and starts its open in the constructor
RemoteDDatabase(p, lz) ==
  /\ ~feeds[p].made
  /\ \A q \in Proxies : q < p => feeds[q].made
  /\ lz \/ CanCreate(sessions)
  /\ LET c == IF lz THEN [id |-> Undef, sessions |-> sessions] ELSE create(sessions, p)
         f == [NoFeed EXCEPT !.made = TRUE, !.lazy = lz, !.id = c.id]
         r == IF lz THEN [sessions |-> c.sessions, feed |-> f, sent |-> <<>>]
                    ELSE open(c.sessions, f, p)
     IN /\ sessions' = r.sessions
        /\ feeds' = [feeds EXCEPT ![p] = r.feed]
        /\ wire' = r.sent
  /\ emitted' = <<>>
  /\ thrown' = NoErr
  /\ last' = Call("new", p)
  /\ UNCHANGED <<ops, exts, closeSent>>

\* RemoteDDatabase.ready(cb) / open() called by the application.  The call
\* returns a pending promise also when open() refuses a closing or closed
\* feed: the refusal arrives later, when the call resumes.
ready(p) ==
  LET f == feeds[p]
      r == open(sessions, f, p)
  IN /\ f.made
     /\ StartsLazyOpen(f) => CanCreate(sessions)
     /\ r.res \in {"pending", "closed"} => FreeSlots # {}
     /\ sessions' = r.sessions
     /\ feeds' = [feeds EXCEPT ![p] = r.feed]
     /\ wire' = r.sent
     /\ ops' = IF r.res = "pending"
                 THEN [ops EXCEPT ![NewSlot] = Slot(p, "ready", "awaitOpen", Undef)]
                 ELSE IF r.res = "closed"
                 THEN [ops EXCEPT ![NewSlot] = Slot(p, "ready", "openClosed", Undef)]
                 ELSE ops
     /\ thrown' = NoErr
     /\ emitted' = <<>>
     /\ last' = Call("ready", p)
     /\ UNCHANGED <<exts, closeSent>>

\* the calls queued on the open of feed p get its outcome
settle(p, err) ==
  [o \in Slots |->
     IF ops[o].p = p /\ ops[o].phase = "awaitOpen"
       THEN [ops[o] EXCEPT !.phase = IF err = NoErr THEN "openOk" ELSE "openErr"]
       ELSE ops[o]]

\* the close calls queued on the close of feed p get its outcome; os is the
\* array of pending calls they are in
settleClose(os, p, err) ==
  [o \in Slots |->
     IF os[o].p = p /\ os[o].phase = "awaitClose"
       THEN [os[o] EXCEPT !.phase = IF err = NoErr THEN "closeOk" ELSE "closeErr"]
       ELSE os[o]]

\* what the daemon may answer to an open request; peers is a set holding the
\* snapshot, empty when the response carries none
PeerObj(k) == [remotePublicKey |-> k]
Snapshots == {<<>>} \cup {<<PeerObj(k)>> : k \in Keys}
OpenRsps ==
  [length : 0..MaxLen, byteLength : 0..MaxBytes,
   peers : {{}} \cup {{sn} : sn \in Snapshots}]

\* an answer that reports an empty feed and carries no peer snapshot
BareRsps == {[length |-> 0, byteLength |-> 0, peers |-> {}]}

\* the open request of feed p is answered: the rest of _open, which sets the
\* fields and emits "ready" while the feed is still opening
openResponse(p, rsp) ==
  LET f == feeds[p]
      g == [f EXCEPT !.length = rsp.length,
                     !.byteLength = rsp.byteLength,
                     !.peers = IF rsp.peers # {} THEN CHOOSE sn \in rsp.peers : TRUE ELSE @,
                     !.emits = "ready"]
  IN /\ f.emits = "none"
     /\ f.opening
     /\ feeds' = [feeds EXCEPT ![p] = g]
     /\ wire' = <<>>
     /\ emitted' = <<[event |-> "ready", p |-> p]>>
     /\ thrown' = NoErr
     /\ last' = Call("openResponse", p)
     /\ UNCHANGED <<sessions, ops, exts, closeSent>>

\* _open has returned: onopen of Nanoresource sets opened, calls the queue
\* and runs a queued close
onopen(p) ==
  LET f == feeds[p]
      g == [f EXCEPT !.opening = FALSE,
                     !.opened = TRUE,
                     !.preclosing = FALSE,
                     !.emits = "none"]
      c == IF f.preclosing THEN close(g) ELSE [feed |-> g, sent |-> <<>>]
  IN /\ f.emits = "ready"
     /\ feeds' = [feeds EXCEPT ![p] = c.feed]
     /\ ops' = settle(p, NoErr)
     /\ wire' = c.sent
     /\ closeSent' = [closeSent EXCEPT ![p] = @ \/ c.sent # <<>>]
     /\ emitted' = <<>>
     /\ thrown' = NoErr
     /\ last' = Call("onopen", p)
     /\ UNCHANGED <<sessions, exts>>

\* the open request of feed p is rejected: _open throws at its await, onopen
\* gets the error, the feed stays unopened and a queued close closes it, which
\* settles the close calls that waited
openReject(p) ==
  LET f == feeds[p]
      g == [f EXCEPT !.opening = FALSE, !.opened = FALSE, !.preclosing = FALSE]
      c == IF f.preclosing THEN close(g) ELSE [feed |-> g, sent |-> <<>>]
  IN /\ f.emits = "none"
     /\ f.opening
     /\ feeds' = [feeds EXCEPT ![p] = c.feed]
     /\ ops' = IF c.feed.closed THEN settleClose(settle(p, ErrRemote), p, NoErr)
                                ELSE settle(p, ErrRemote)
     /\ wire' = c.sent
     /\ emitted' = <<>>
     /\ thrown' = NoErr
     /\ last' = Call("openReject", p)
     /\ UNCHANGED <<sessions, exts, closeSent>>

\* close with sessions.delete moved before the await of _close
closeCallMutFreesFirst(p) ==
  LET c == close(feeds[p])
      waits == ~c.feed.closed
  IN /\ feeds[p].made
     /\ waits => FreeSlots # {}
     /\ feeds' = [feeds EXCEPT ![p] = c.feed]
     /\ sessions' = IF c.sent # <<>> THEN delete(sessions, feeds[p].id) ELSE sessions
     /\ wire' = c.sent
     /\ closeSent' = [closeSent EXCEPT ![p] = @ \/ c.sent # <<>>]
     /\ ops' = IF waits
                 THEN [ops EXCEPT ![NewSlot] = Slot(p, "close", "awaitClose", Undef)]
                 ELSE ops
     /\ emitted' = <<>>
     /\ thrown' = NoErr
     /\ last' = Call("close", p)
     /\ UNCHANGED exts

\* RemoteDDatabase.close() called by the application.  On a feed that is
\* closed, or that was never opened and is closed by this call, the call
\* succeeds without waiting; otherwise it waits for the close of the feed
\* (started by this call, already in flight, or queued behind the open) and
\* gets its outcome.
closeCall(p) ==
  LET c == close(feeds[p])
      waits == ~c.feed.closed
  IN /\ feeds[p].made
     /\ waits => FreeSlots # {}
     /\ feeds' = [feeds EXCEPT ![p] = c.feed]
     /\ wire' = c.sent
     /\ closeSent' = [closeSent EXCEPT ![p] = @ \/ c.sent # <<>>]
     /\ ops' = IF waits
                 THEN [ops EXCEPT ![NewSlot] = Slot(p, "close", "awaitClose", Undef)]
                 ELSE ops
     /\ emitted' = <<>>
     /\ thrown' = NoErr
     /\ last' = Call("close", p)
     /\ UNCHANGED <<sessions, exts>>

\* the close request of feed p is acknowledged: the rest of _close, which
\* frees the id and emits "close" while the feed is still closing
closeResponse(p) ==
  LET f == feeds[p]
  IN /\ f.emits = "none"
     /\ f.closing
     /\ sessions' = delete(sessions, f.id)
     /\ feeds' = [feeds EXCEPT ![p] = [f EXCEPT !.emits = "close"]]
     /\ wire' = <<>>
     /\ emitted' = <<[event |-> "close", p |-> p]>>
     /\ thrown' = NoErr
     /\ last' = Call("closeResponse", p)
     /\ UNCHANGED <<ops, exts, closeSent>>

\* _close has returned: onclose of Nanoresource sets closed and calls the
\* close calls that waited
onclose(p) ==
  LET f == feeds[p]
  IN /\ f.emits = "close"
     /\ feeds' = [feeds EXCEPT ![p] = [f EXCEPT !.closing = FALSE,
                                                 !.closed = TRUE,
                                                 !.emits = "none"]]
     /\ wire' = <<>>
     /\ emitted' = <<>>
     /\ thrown' = NoErr
     /\ ops' = settleClose(ops, p, NoErr)
     /\ last' = Call("onclose", p)
     /\ UNCHANGED <<sessions, exts, closeSent>>

\* the close request of feed p is rejected: _close throws at its await,
\* onclose gets the error and the feed stays open; the error goes to every
\* close call that waited, which fails with it when it resumes
closeReject(p) ==
  LET f == feeds[p]
  IN /\ f.emits = "none"
     /\ f.closing
     /\ feeds' = [feeds EXCEPT ![p] = [f EXCEPT !.closing = FALSE, !.closed = FALSE]]
     /\ wire' = <<>>
     /\ emitted' = <<>>
     /\ thrown' = NoErr
     /\ ops' = settleClose(ops, p, ErrRemote)
     /\ last' = Call("closeReject", p)
     /\ UNCHANGED <<sessions, exts, closeSent>>

\* ---------------------------------------------------------------- data operations

\* resource ids createResourceId has returned so far
Issued == 0..(sessions.resourceCounter - 1)

\* the body without `if (!this.opened) await this.open()`
dataCallMutNoAwait(s, p, kind, rid) ==
  LET f == feeds[p]
  IN IF f.closed
       THEN [sessions |-> s, feed |-> f, sent |-> <<>>, phase |-> "none",
             err |-> ErrFeedClosed]
       ELSE [sessions |-> s, feed |-> f, sent |-> <<DataReq(kind, f.id, rid)>>,
             phase |-> "sent", err |-> NoErr]

\* the body shared by _append, _get, _update, _seek, _has, _download,
\* _undownload and _downloaded, run from the public method up to the first
\* await that suspends it: `if (!this.opened) await this.open()`, then
\* `if (this.closed) throw`, then the request.  s is the registry after the
\* public method ran (download has taken its resource id by then).  When
\* open() refuses a closing or closed feed the operation waits like any
\* other and gets the refusal when it resumes.
dataCall(s, p, kind, rid) ==
  LET f == feeds[p]
      r == open(s, f, p)
  IN IF f.opened
       THEN IF f.closed
              THEN [sessions |-> s, feed |-> f, sent |-> <<>>, phase |-> "none",
                    err |-> ErrFeedClosed]
              ELSE [sessions |-> s, feed |-> f, sent |-> <<DataReq(kind, f.id, rid)>>,
                    phase |-> "sent", err |-> NoErr]
     ELSE IF r.res = "closed"
       THEN [sessions |-> s, feed |-> f, sent |-> <<>>, phase |-> "openClosed",
             err |-> NoErr]
     ELSE [sessions |-> r.sessions, feed |-> r.feed, sent |-> r.sent,
           phase |-> "awaitOpen", err |-> NoErr]

\* append, get, update, seek, has, downloaded, undownload(dl) and
\* download(range): the public method, then dataCall.  undownload reads
\* dl.resourceId before anything else, whatever the state of the feed: a
\* TypeError when dl is undefined or null (dl = Undef), its own error when dl
\* is an object whose resourceId is not a number (dl = NotDownload).
dataOp(p, kind, dl) ==
  LET f == feeds[p]
      c == IF kind = "download" THEN createResourceId(sessions)
                                ELSE [id |-> dl, sessions |-> sessions]
      r == dataCall(c.sessions, p, kind, c.id)
      badToken == kind = "undownload" /\ dl \in {Undef, NotDownload}
  IN /\ f.made
     /\ kind = "download" => sessions.resourceCounter < MaxRes /\ dl = Undef
     /\ kind = "undownload" => dl \in Issued \cup {Undef, NotDownload}
     /\ kind \notin {"download", "undownload"} => dl = Undef
     /\ IF badToken
          THEN /\ wire' = <<>>
               /\ thrown' = IF dl = Undef THEN ErrTypeError ELSE ErrUndownload
               /\ UNCHANGED <<sessions, feeds, ops>>
          ELSE /\ (~f.opened /\ StartsLazyOpen(f)) => CanCreate(sessions)
               /\ r.phase # "none" => FreeSlots # {}
               /\ sessions' = r.sessions
               /\ feeds' = [feeds EXCEPT ![p] = r.feed]
               /\ wire' = r.sent
               /\ ops' = IF r.phase # "none"
                           THEN [ops EXCEPT ![NewSlot] = Slot(p, kind, r.phase, c.id)]
                           ELSE ops
               /\ thrown' = r.err
     /\ emitted' = <<>>
     /\ last' = Call("data", p)
     /\ UNCHANGED <<exts, closeSent>>

\* update(opts, cb): a callback in the place of opts leaves opts null
updateArg(opts) ==
  IF opts.t = "function" THEN Arg("null", Absent, Absent, FALSE, <<>>) ELSE opts

\* _update after its checks: a number is the minLength, a minLength that is
\* not a number becomes this.length + 1; reading opts.minLength of undefined
\* or null is a TypeError
updateOpts(opts, length) ==
  IF opts.t = "number" THEN [err |-> NoErr, minLength |-> opts.a]
  ELSE IF opts.t \in {"undefined", "null"} THEN [err |-> ErrTypeError, minLength |-> Absent]
  ELSE IF opts.a = Absent THEN [err |-> NoErr, minLength |-> length + 1]
  ELSE [err |-> NoErr, minLength |-> opts.a]

\* the loop of download with `if (blk > max) max = blk` in place of
\* `if (blk >= max) max = blk + 1`
minMaxMutInclusive(blocks, i, min, max) ==
  IF i > Len(blocks) THEN [min |-> min, max |-> max]
  ELSE LET blk == blocks[i]
       IN minMaxMutInclusive(blocks, i + 1,
                             IF min = -1 \/ blk < min THEN blk ELSE min,
                             IF blk > max THEN blk ELSE max)

\* the loop of download over range.blocks, from index i on, with the min
\* and max it has so far
minMax(blocks, i, min, max) ==
  IF i > Len(blocks) THEN [min |-> min, max |-> max]
  ELSE LET blk == blocks[i]
       IN minMax(blocks, i + 1,
                 IF min = -1 \/ blk < min THEN blk ELSE min,
                 IF blk >= max THEN blk + 1 ELSE max)

\* download before it takes its resource id: a number is one block, an
\* array is { blocks }, blocks without a numeric start get the covering
\* interval, an end of -1 becomes 0
downloadRange(range) ==
  LET r1 == IF range.t = "number"
              THEN Arg("range", range.a, range.a + 1, FALSE, <<>>)
            ELSE IF range.t = "array"
              THEN Arg("range", Absent, Absent, TRUE, range.blocks)
            ELSE [range EXCEPT !.t = "range"]
      mm == minMax(r1.blocks, 1, -1, 0)
      r2 == IF r1.hasBlocks /\ r1.a = Absent
              THEN [r1 EXCEPT !.a = IF mm.min = -1 THEN 0 ELSE mm.min, !.b = mm.max]
              ELSE r1
  IN IF r2.b = -1 THEN [r2 EXCEPT !.b = 0] ELSE r2

\* the request a data operation sends once it is past its checks, with the
\* arguments it kept; a call modelled without arguments sends the bare
\* request
request(kind, id, rid, arg, length) ==
  IF arg.t = "none" THEN [err |-> NoErr, sent |-> <<DataReq(kind, id, rid)>>]
  ELSE IF kind = "update"
    THEN LET u == updateOpts(arg, length)
         IN [err |-> u.err,
             sent |-> IF u.err = NoErr THEN <<UpdateReq(id, u.minLength)>> ELSE <<>>]
  ELSE [err |-> NoErr, sent |-> <<DownloadReq(id, rid, arg)>>]

\* update(opts) and download(range) with their arguments: the public
\* method, then dataCall, then the request built from the arguments
argOp(p, kind, input) ==
  LET f == feeds[p]
      c == IF kind = "download" THEN createResourceId(sessions)
                                ELSE [id |-> Undef, sessions |-> sessions]
      arg == IF kind = "download" THEN downloadRange(input) ELSE updateArg(input)
      r == dataCall(c.sessions, p, kind, c.id)
      rq == request(kind, f.id, c.id, arg, f.length)
      now == r.phase = "sent"
      keeps == r.phase \in {"awaitOpen", "openClosed"} \/ (now /\ rq.err = NoErr)
  IN /\ f.made
     /\ kind = "download" => sessions.resourceCounter < MaxRes
     /\ (~f.opened /\ StartsLazyOpen(f)) => CanCreate(sessions)
     /\ keeps => FreeSlots # {}
     /\ sessions' = r.sessions
     /\ feeds' = [feeds EXCEPT ![p] = r.feed]
     /\ wire' = IF now THEN rq.sent ELSE r.sent
     /\ ops' = IF keeps
                 THEN [ops EXCEPT ![NewSlot] = SlotArg(p, kind, r.phase, c.id, arg)]
                 ELSE ops
     /\ thrown' = IF now THEN rq.err ELSE r.err
     /\ emitted' = <<>>
     /\ last' = Call(kind, p)
     /\ UNCHANGED <<exts, closeSent>>

\* RemoteDDatabase.update(opts, cb)
update(p, opts) == argOp(p, "update", opts)

\* RemoteDDatabase.download(range, cb)
download(p, range) == argOp(p, "download", range)

\* RemoteExtension's reg(): the registration leaves with the feed's current id
reg(p, rid) == <<RegisterReq(feeds[p].id, rid)>>

\* the callback RemoteExtension hands to feed.ready when the feed has no
\* session id yet: `if (err) return this.onerror(err)`, then reg()
onReady(ok, p, rid) == IF ok THEN reg(p, rid) ELSE <<>>

\* the outcomes a waiting call resumes with: of the open or of the close of
\* its feed, or the refusal of open() on a feed that is closing or closed
Settled == {"openOk", "openErr", "openClosed", "closeOk", "closeErr"}

\* a call that awaited the open or the close of its feed resumes with the
\* outcome: ready() and close() settle, a data operation throws when the
\* feed has closed and sends its request otherwise, a deferred extension
\* registers or gets the error on its onerror
continue(o) ==
  LET op == ops[o]
      f == feeds[op.p]
      ok == op.phase \in {"openOk", "closeOk"}
      err == IF op.phase = "openClosed" THEN ErrResourceClosed ELSE ErrRemote
      isData == op.kind \in DataKinds
      sends == ok /\ isData /\ ~f.closed
      rq == request(op.kind, f.id, op.rid, op.arg, f.length)
  IN /\ op.phase \in Settled
     /\ wire' = IF sends THEN rq.sent
                ELSE IF op.kind = "ext" THEN onReady(ok, op.p, op.rid)
                ELSE <<>>
     /\ ops' = [ops EXCEPT ![o] = IF sends /\ rq.err = NoErr
                                    THEN [@ EXCEPT !.phase = "sent"] ELSE FreeSlot]
     /\ exts' = IF op.kind = "ext"
                  THEN [exts EXCEPT ![op.rid].regs = @ + Len(onReady(ok, op.p, op.rid))]
                  ELSE exts
     /\ thrown' = IF ~ok /\ op.kind # "ext" THEN err
                  ELSE IF ok /\ isData /\ f.closed THEN ErrFeedClosed
                  ELSE IF sends THEN rq.err
                  ELSE NoErr
     /\ emitted' = IF ~ok /\ op.kind = "ext"
                     THEN <<[event |-> "onerror", ext |-> op.rid, err |-> err]>>
                     ELSE <<>>
     /\ last' = Call("continue", op.p)
     /\ UNCHANGED <<sessions, feeds, closeSent>>

\* lock() returning a promise, and lock(onlocked) returning nothing
LockKinds == {"lock", "lockCb"}

\* the daemon answers a data request or an acquireLock request.  A granted
\* lock leaves the release function with the application: the promise of
\* lock() resolves to it, lock(onlocked) passes it to onlocked on the next
\* tick.  lock(onlocked) swallows a refusal (`.catch(noop)`).
dataResponse(o, ok) ==
  LET op == ops[o]
      granted == ok /\ op.kind \in LockKinds
  IN /\ op.phase = "sent"
     /\ ops' = [ops EXCEPT ![o] = IF granted THEN [@ EXCEPT !.phase = "locked"]
                                             ELSE FreeSlot]
     /\ wire' = <<>>
     /\ emitted' = IF granted /\ op.kind = "lockCb"
                     THEN <<[event |-> "onlocked", p |-> op.p]>>
                     ELSE <<>>
     /\ thrown' = IF ok \/ op.kind = "lockCb" THEN NoErr ELSE ErrRemote
     /\ last' = Call("dataResponse", op.p)
     /\ UNCHANGED <<sessions, feeds, exts, closeSent>>

\* the release function of a granted lock, called by the application: it
\* sends releaseLockNoReply with the id the feed has at that time.  The
\* function stays callable; drop says the application lets go of it.
release(o, drop) ==
  LET op == ops[o]
  IN /\ op.phase = "locked"
     /\ wire' = <<ReleaseReq(feeds[op.p].id)>>
     /\ ops' = IF drop THEN [ops EXCEPT ![o] = FreeSlot] ELSE ops
     /\ emitted' = <<>>
     /\ thrown' = NoErr
     /\ last' = Call("release", op.p)
     /\ UNCHANGED <<sessions, feeds, exts, closeSent>>

\* lock without `if (!this.opened) throw`
lockMutNoGuard(p, onlocked) ==
  LET f == feeds[p]
      kind == IF onlocked THEN "lockCb" ELSE "lock"
  IN /\ f.made
     /\ FreeSlots # {}
     /\ wire' = <<LockReq(f.id)>>
     /\ ops' = [ops EXCEPT ![NewSlot] = Slot(p, kind, "sent", Undef)]
     /\ thrown' = NoErr
     /\ emitted' = <<>>
     /\ last' = Call("lock", p)
     /\ UNCHANGED <<sessions, feeds, exts, closeSent>>

\* RemoteDDatabase.lock(onlocked): onlocked says whether the application
\* passed a callback
lock(p, onlocked) ==
  LET f == feeds[p]
      kind == IF onlocked THEN "lockCb" ELSE "lock"
  IN /\ f.made
     /\ f.opened => FreeSlots # {}
     /\ wire' = IF f.opened THEN <<LockReq(f.id)>> ELSE <<>>
     /\ ops' = IF f.opened
                 THEN [ops EXCEPT ![NewSlot] = Slot(p, kind, "sent", Undef)]
                 ELSE ops
     /\ thrown' = IF f.opened THEN NoErr ELSE ErrLock
     /\ emitted' = <<>>
     /\ last' = Call("lock", p)
     /\ UNCHANGED <<sessions, feeds, exts, closeSent>>

\* RemoteDDatabase.registerExtension -> new RemoteExtension(feed, name, opts):
\* registers at once when the feed has a session id, else through
\* feed.ready(cb), whose callback runs later: with the outcome of the open
\* it waits for, or with the refusal of open() on a closing or closed feed
registerExtension(p) ==
  LET f == feeds[p]
      c == createResourceId(sessions)
      now == f.id # Undef
      r == IF now THEN [sessions |-> c.sessions, feed |-> f, sent |-> reg(p, c.id),
                        res |-> "now"]
                  ELSE open(c.sessions, f, p)
  IN /\ f.made
     /\ sessions.resourceCounter < MaxRes
     /\ (~now /\ StartsLazyOpen(f)) => CanCreate(sessions)
     /\ r.res \in {"pending", "closed"} => FreeSlots # {}
     /\ sessions' = r.sessions
     /\ feeds' = [feeds EXCEPT ![p] = [r.feed EXCEPT !.extensions = @ \cup {c.id}]]
     /\ exts' = [exts EXCEPT ![c.id] =
                  [feed |-> p, regs |-> IF r.res \in {"now", "opened"} THEN 1 ELSE 0]]
     /\ ops' = IF r.res = "pending"
                 THEN [ops EXCEPT ![NewSlot] = Slot(p, "ext", "awaitOpen", c.id)]
                 ELSE IF r.res = "closed"
                 THEN [ops EXCEPT ![NewSlot] = Slot(p, "ext", "openClosed", c.id)]
                 ELSE ops
     /\ wire' = IF r.res = "opened" THEN reg(p, c.id) ELSE r.sent
     /\ thrown' = NoErr
     /\ emitted' = <<>>
     /\ last' = Call("registerExtension", p)
     /\ UNCHANGED closeSent

\* the null of remotePublicKey
NullKey == 0

\* RemoteExtension.broadcast(message)
broadcast(rid) ==
  LET p == exts[rid].feed
      f == feeds[p]
  IN /\ p # NoProxy
     /\ wire' = IF f.id = Undef THEN <<>> ELSE <<SendReq(f.id, rid, NullKey)>>
     /\ emitted' = <<>>
     /\ thrown' = NoErr
     /\ last' = Call("broadcast", p)
     /\ UNCHANGED <<sessions, feeds, ops, exts, closeSent>>

\* RemoteExtension.send(message, peer): the request names no peer, its
\* remotePublicKey is the literal null
send(rid, peer) ==
  LET p == exts[rid].feed
      f == feeds[p]
  IN /\ p # NoProxy
     /\ wire' = IF f.id = Undef THEN <<>> ELSE <<SendReq(f.id, rid, NullKey)>>
     /\ emitted' = <<>>
     /\ thrown' = NoErr
     /\ last' = Call("send", p)
     /\ UNCHANGED <<sessions, feeds, ops, exts, closeSent>>

\* feed.cancel(p) of the README, on the promise of the get in slot o, or on
\* the promise of a get that has settled (o = 0): RemoteDDatabase defines no
\* cancel, so the call is a TypeError (feed.cancel is not a function),
\* nothing is sent and the promise is left as it was
cancel(p, o) ==
  /\ feeds[p].made
  /\ o # 0 => ops[o].kind = "get" /\ ops[o].p = p /\ ops[o].phase # "free"
  /\ wire' = <<>>
  /\ emitted' = <<>>
  /\ thrown' = ErrTypeError
  /\ last' = Call("cancel", p)
  /\ UNCHANGED <<sessions, feeds, ops, exts, closeSent>>

\* ---------------------------------------------------------------- push notifications

\* the search answering the last index where the code answers -1
indexOfPeerMutLast(peers, remotePublicKey) ==
  LET hits == {i \in 1..Len(peers) : peers[i].remotePublicKey = remotePublicKey}
  IN IF hits = {} THEN Len(peers) ELSE CHOOSE i \in hits : \A j \in hits : i <= j

\* _indexOfPeer: the first index whose key equals the argument; 0 stands for
\* the -1 of the code, indices count from 1
indexOfPeer(peers, remotePublicKey) ==
  LET hits == {i \in 1..Len(peers) : peers[i].remotePublicKey = remotePublicKey}
  IN IF hits = {} THEN 0 ELSE CHOOSE i \in hits : \A j \in hits : i <= j

\* Array.splice(idx, 1)
splice(seq, idx) == SubSeq(seq, 1, idx - 1) \o SubSeq(seq, idx + 1, Len(seq))

\* a handler of RemoteBasestore found no feed under the id it was given
invalidId(op) ==
  /\ wire' = <<>>
  /\ emitted' = <<>>
  /\ thrown' = ErrInvalidId
  /\ last' = Call(op, NoProxy)
  /\ UNCHANGED <<sessions, feeds, ops, exts, closeSent>>

\* onAppend -> _onappend
onAppend(id, length, byteLength) ==
  LET p == get(sessions, id)
  IN IF p = NoProxy THEN invalidId("onAppend")
     ELSE /\ feeds' = [feeds EXCEPT ![p].length = length,
                                        ![p].byteLength = byteLength]
          /\ wire' = <<>>
          /\ emitted' = <<[event |-> "append", p |-> p]>>
          /\ thrown' = NoErr
          /\ last' = Call("onAppend", p)
          /\ UNCHANGED <<sessions, ops, exts, closeSent>>

\* a handler that closes the feed on the spot: no close request, the feed
\* closed and its id freed by the notice itself
onCloseMutForce(id) ==
  LET p == get(sessions, id)
  IN IF p = NoProxy THEN invalidId("onClose")
     ELSE /\ feeds' = [feeds EXCEPT ![p].closed = TRUE, ![p].closing = FALSE]
          /\ sessions' = delete(sessions, id)
          /\ wire' = <<>>
          /\ emitted' = <<>>
          /\ thrown' = NoErr
          /\ last' = Call("onClose", p)
          /\ UNCHANGED <<ops, exts, closeSent>>

\* onClose -> remoteBase.close(() => {})
onClose(id) ==
  LET p == get(sessions, id)
      c == close(feeds[p])
  IN IF p = NoProxy THEN invalidId("onClose")
     ELSE /\ feeds' = [feeds EXCEPT ![p] = c.feed]
          /\ wire' = c.sent
          /\ closeSent' = [closeSent EXCEPT ![p] = @ \/ c.sent # <<>>]
          /\ emitted' = <<>>
          /\ thrown' = NoErr
          /\ last' = Call("onClose", p)
          /\ UNCHANGED <<sessions, ops, exts>>

\* onPeerOpen -> _onpeeropen
onPeerOpen(id, key) ==
  LET p == get(sessions, id)
      remotePeer == PeerObj(key)
  IN IF p = NoProxy THEN invalidId("onPeerOpen")
     ELSE /\ Len(feeds[p].peers) < MaxPeers
          /\ feeds' = [feeds EXCEPT ![p].peers = Append(@, remotePeer)]
          /\ wire' = <<>>
          /\ emitted' = <<[event |-> "peer-open", p |-> p, peer |-> remotePeer]>>
          /\ thrown' = NoErr
          /\ last' = Call("onPeerOpen", p)
          /\ UNCHANGED <<sessions, ops, exts, closeSent>>

\* onPeerRemove -> _onpeerremove
onPeerRemove(id, key) ==
  LET p == get(sessions, id)
      idx == indexOfPeer(feeds[p].peers, key)
  IN IF p = NoProxy THEN invalidId("onPeerRemove")
     ELSE /\ feeds' = IF idx = 0 THEN feeds
                      ELSE [feeds EXCEPT ![p].peers = splice(@, idx)]
          /\ wire' = <<>>
          /\ emitted' = IF idx = 0 THEN <<>>
                        ELSE <<[event |-> "peer-remove", p |-> p, peer |-> feeds[p].peers[idx]]>>
          /\ thrown' = IF idx = 0 THEN ErrPeer ELSE NoErr
          /\ last' = Call("onPeerRemove", p)
          /\ UNCHANGED <<sessions, ops, exts, closeSent>>

\* onExtension -> _onextension: a message of a peer the feed does not list is
\* dropped; this._extensions.get(resourceId) is undefined for a resource id
\* with no extension on this feed, and calling its onmessage is a TypeError
onExtension(id, rid, key) ==
  LET p == get(sessions, id)
      idx == indexOfPeer(feeds[p].peers, key)
      known == rid \in feeds[p].extensions
  IN IF p = NoProxy THEN invalidId("onExtension")
     ELSE /\ wire' = <<>>
          /\ emitted' = IF idx # 0 /\ known
                          THEN <<[event |-> "onmessage", ext |-> rid,
                                  peer |-> feeds[p].peers[idx]]>>
                          ELSE <<>>
          /\ thrown' = IF idx # 0 /\ ~known THEN ErrTypeError ELSE NoErr
          /\ last' = Call("onExtension", p)
          /\ UNCHANGED <<sessions, feeds, ops, exts, closeSent>>

\* ---------------------------------------------------------------- specifications

\* The registry and the life cycle of the feeds: construction, open, close
\* and the daemon's close notice, with every answer the daemon may give.
Next ==
  \/ \E p \in Proxies, lz \in BOOLEAN : RemoteDDatabase(p, lz)
  \/ \E p \in Proxies : ready(p)
  \/ \E o \in Slots : continue(o)
  \/ \E p \in Proxies, rsp \in BareRsps : openResponse(p, rsp)
  \/ \E p \in Proxies : onopen(p)
  \/ \E p \in Proxies : openReject(p)
  \/ \E p \in Proxies : closeCall(p)
  \/ \E p \in Proxies : closeResponse(p)
  \/ \E p \in Proxies : onclose(p)
  \/ \E p \in Proxies : closeReject(p)
  \/ \E id \in Ids : onClose(id)

Spec == Init /\ [][Next]_vars

\* The operations of the application on its feeds.
OpsFeeds == 1         \* feeds the application constructs under SpecOps
NextOps ==
  \/ \E p \in 1..OpsFeeds, lz \in BOOLEAN : RemoteDDatabase(p, lz)
  \/ \E p \in Proxies : ready(p)
  \/ \E p \in Proxies, kind \in DataKinds, dl \in {Undef, NotDownload} \cup ResIds :
       /\ kind = "download" => sessions.resourceCounter < OpsRes
       /\ dataOp(p, kind, dl)
  \/ \E o \in Slots : continue(o)
  \/ \E o \in Slots, ok \in BOOLEAN : dataResponse(o, ok)
  \/ \E p \in Proxies, rsp \in BareRsps : openResponse(p, rsp)
  \/ \E p \in Proxies : onopen(p)
  \/ \E p \in Proxies : openReject(p)
  \/ \E p \in Proxies : closeCall(p)
  \/ \E p \in Proxies : closeResponse(p)
  \/ \E p \in Proxies : onclose(p)
  \/ \E p \in Proxies, onlocked \in BOOLEAN : lock(p, onlocked)
  \/ \E o \in Slots, drop \in BOOLEAN : release(o, drop)
  \/ \E p \in Proxies : sessions.resourceCounter < OpsRes /\ registerExtension(p)
  \/ \E p \in Proxies, o \in {0} \cup Slots : cancel(p, o)

SpecOps == Init /\ [][NextOps]_vars

\* The push notifications of the daemon.  The daemon has at most MaxPeers
\* peers connected over all feeds, so its snapshots and peer-open notices
\* keep the peer lists within that.
RECURSIVE PeerCount(_)
PeerCount(S) ==
  IF S = {} THEN 0
  ELSE LET q == CHOOSE x \in S : TRUE IN Len(feeds[q].peers) + PeerCount(S \ {q})
Fits(p, rsp) ==
  IF rsp.peers = {} THEN TRUE
  ELSE PeerCount(Proxies \ {p}) + Len(CHOOSE sn \in rsp.peers : TRUE) <= MaxPeers

PushFeeds == 1        \* feeds the application constructs under SpecPush
NextPush ==
  \/ \E p \in 1..PushFeeds, lz \in BOOLEAN : RemoteDDatabase(p, lz)
  \/ \E p \in Proxies : ready(p)
  \/ \E o \in Slots : continue(o)
  \/ \E p \in Proxies, rsp \in OpenRsps : Fits(p, rsp) /\ openResponse(p, rsp)
  \/ \E p \in Proxies : onopen(p)
  \/ \E p \in Proxies : closeCall(p)
  \/ \E p \in Proxies : closeResponse(p)
  \/ \E p \in Proxies : onclose(p)
  \/ \E p \in Proxies : sessions.resourceCounter < OpsRes /\ registerExtension(p)
  \/ \E id \in Ids, length \in 0..MaxLen, byteLength \in 0..MaxBytes :
       onAppend(id, length, byteLength)
  \/ \E id \in Ids : onClose(id)
  \/ \E id \in Ids, key \in Keys : PeerCount(Proxies) < MaxPeers /\ onPeerOpen(id, key)
  \/ \E id \in Ids, key \in Keys : onPeerRemove(id, key)
  \/ \E id \in Ids, rid \in ResIds, key \in Keys : onExtension(id, rid, key)

SpecPush == Init /\ [][NextPush]_vars

\* The registry on its own: the calls the feeds make on the Sessions object,
\* in any order they can occur.

\* sessions.create(remoteBase), as the constructor of an eager feed and
\* _open of a lazy feed call it
sessionsCreate(remoteBase) ==
  /\ CanCreate(sessions)
  /\ sessions' = create(sessions, remoteBase).sessions
  /\ last' = Call("create", remoteBase)
  /\ wire' = <<>> /\ emitted' = <<>> /\ thrown' = NoErr
  /\ UNCHANGED <<feeds, ops, exts, closeSent>>

\* sessions.delete(id), as _close calls it with the id of its feed
sessionsDelete(id) ==
  /\ id \in DOMAIN sessions.remoteBases
  /\ sessions' = delete(sessions, id)
  /\ last' = Call("delete", sessions.remoteBases[id])
  /\ wire' = <<>> /\ emitted' = <<>> /\ thrown' = NoErr
  /\ UNCHANGED <<feeds, ops, exts, closeSent>>

NextSessions ==
  \/ \E remoteBase \in Proxies : sessionsCreate(remoteBase)
  \/ \E id \in Ids : sessionsDelete(id)

SpecSessions == Init /\ [][NextSessions]_vars

\* The operations that take arguments, and the extension channel: what
\* update, download, send and broadcast put on the wire.
ArgFeeds == 1
ArgOps == 1
MaxBlock == 2
MaxBlocks == 3
Nums == 0..(MaxLen + 1)
Blocks == 0..MaxBlock
BlockSeqs == UNION {[1..n -> Blocks] : n \in 0..MaxBlocks}

\* the values the application may pass to update: nothing, a callback, an
\* object without or with minLength, a number
UpdateInputs ==
  {Arg(t, Absent, Absent, FALSE, <<>>) : t \in {"undefined", "function", "object"}}
    \cup {Arg(t, n, Absent, FALSE, <<>>) : t \in {"object", "number"}, n \in Nums}

\* the values the application may pass to download: a block index, an array
\* of blocks, { blocks }, { start, end }
BlockInputs ==
  {Arg(t, Absent, Absent, TRUE, b) : t \in {"array", "object"}, b \in BlockSeqs}
DownloadInputs ==
  BlockInputs
    \cup {Arg("number", n, Absent, FALSE, <<>>) : n \in Blocks}
    \cup {Arg("object", 0, e, FALSE, <<>>) : e \in {-1, 1}}

LenRsps == {rsp \in OpenRsps : rsp.peers = {}}

\* calls that have not settled
Pending == Cardinality(Slots \ FreeSlots)

NextArgs ==
  \/ \E p \in 1..ArgFeeds, lz \in BOOLEAN : RemoteDDatabase(p, lz)
  \/ \E o \in Slots : continue(o)
  \/ \E o \in Slots, ok \in BOOLEAN : dataResponse(o, ok)
  \/ \E p \in Proxies, rsp \in LenRsps : openResponse(p, rsp)
  \/ \E p \in Proxies : onopen(p)
  \/ \E p \in Proxies : openReject(p)
  \/ \E p \in Proxies, opts \in UpdateInputs : Pending < ArgOps /\ update(p, opts)
  \/ \E p \in Proxies, range \in DownloadInputs :
       Pending < ArgOps /\ sessions.resourceCounter < OpsRes /\ download(p, range)
  \/ \E p \in Proxies :
       Pending < ArgOps /\ sessions.resourceCounter < OpsRes /\ registerExtension(p)
  \/ \E rid \in ResIds : broadcast(rid)
  \/ \E rid \in ResIds, k \in Keys : send(rid, PeerObj(k))

SpecArgs == Init /\ [][NextArgs]_vars

\* The resources of the feeds of a store and of its namespace.
\* RemoteBasestore.namespace(name) hands `sessions: this._sessions` to the
\* store it constructs, so the feeds of both allocate their session ids and
\* their resource ids from the one Sessions object; feed p is got from
\* store StoreOf(p).
StoreOf(p) == ((p - 1) % NumStores) + 1

NextRes ==
  \/ \E p \in Proxies, lz \in BOOLEAN : RemoteDDatabase(p, lz)
  \/ \E p \in Proxies, rsp \in BareRsps : openResponse(p, rsp)
  \/ \E p \in Proxies : onopen(p)
  \/ \E p \in Proxies : closeCall(p)
  \/ \E p \in Proxies : closeResponse(p)
  \/ \E p \in Proxies : onclose(p)
  \/ \E p \in Proxies : dataOp(p, "download", Undef)
  \/ \E p \in Proxies : registerExtension(p)
  \/ \E o \in Slots : continue(o)
  \/ \E o \in Slots, ok \in BOOLEAN : dataResponse(o, ok)

SpecRes == Init /\ [][NextRes]_vars

\* ---------------------------------------------------------------- claims

\* feed p holds the session id in its _id: it took one from create and has
\* not given it back through delete (which _close calls once the close of an
\* opened feed is acknowledged, just before it emits "close")
HoldsId(p) ==
  /\ feeds[p].id # Undef
  /\ ~(feeds[p].opened /\ feeds[p].closed)
  /\ feeds[p].emits # "close"

\* C1: at every point of every run no two live feeds hold the same session
\* id, and the registry maps the id a live feed holds to that feed: create
\* never hands out an id that is bound to another live feed.
C1_UniqueLiveIds ==
  \A p \in Proxies : HoldsId(p) =>
    /\ get(sessions, feeds[p].id) = p
    /\ \A q \in Proxies \ {p} : HoldsId(q) => feeds[q].id # feeds[p].id

\* a feed freed its id and the other feed now holds that very id
C1_Witness ==
  \E p, q \in Proxies :
    /\ p # q
    /\ feeds[p].opened /\ feeds[p].closed
    /\ HoldsId(q) /\ feeds[q].id = feeds[p].id

CloseCalls == {"close", "onClose"}
NumCloseReqs(w) == Cardinality({i \in 1..Len(w) : w[i].type = "close"})

\* C4 as stated: over any number of close calls on a feed, from the
\* application or from a close notice, at most one close request is sent:
\* once one has left for the feed, no step of the feed sends another.
C4_AtMostOneCloseRequest ==
  [][\A p \in Proxies :
       (closeSent[p] /\ last'.p = p) => NumCloseReqs(wire') = 0]_vars

CloseWaiters(p) == {o \in Slots : ops[o].p = p /\ ops[o].kind = "close"}

\* C4 amended: a close call on a feed that is closing or closed changes no
\* feed and not the registry and sends nothing; on a closed feed it succeeds
\* at once, on a closing feed it waits for the close in flight and gets its
\* outcome: it succeeds when the feed has become closed and fails, with the
\* daemon's error, exactly when the daemon rejects that close request.  No
\* step sends a close request for a feed whose close request is in flight or
\* that is closed, and no step sends two; the session id goes back to the
\* free list only in the step that takes the acknowledgement of the close
\* request, after which the feed can only become closed, and a closed feed
\* stays closed.  (After a rejected close request the feed is open again and
\* the next close call sends a new request.)
C4_CloseIdempotent ==
  [][\A p \in Proxies :
       LET f == feeds[p]
           mine == last'.p = p
           called == mine /\ last'.op \in CloseCalls
       IN /\ (called /\ (f.closing \/ f.closed)) =>
               /\ wire' = <<>>
               /\ thrown' = NoErr
               /\ feeds' = feeds
               /\ sessions' = sessions
          /\ (closeCall(p) /\ f.closed) => ops' = ops
          /\ (closeCall(p) /\ f.closing) =>
               \E o \in Slots : /\ ops[o].phase = "free"
                                 /\ ops'[o] = Slot(p, "close", "awaitClose", Undef)
          /\ \A o \in CloseWaiters(p) :
               /\ (ops[o].phase = "awaitClose" /\ ops'[o].phase = "closeOk") =>
                    feeds'[p].closed
               /\ (ops[o].phase = "awaitClose" /\ ops'[o].phase = "closeErr") =>
                    last' = Call("closeReject", p)
               /\ (ops[o].phase = "awaitClose" /\ last' = Call("closeReject", p)) =>
                    ops'[o].phase = "closeErr"
               /\ continue(o) =>
                    thrown' = IF ops[o].phase = "closeErr" THEN ErrRemote ELSE NoErr
          /\ (mine /\ (f.closing \/ f.closed)) => NumCloseReqs(wire') = 0
          /\ mine => NumCloseReqs(wire') <= 1
          /\ (mine /\ Len(sessions'.freeList) > Len(sessions.freeList)) =>
               /\ ~f.closed /\ f.closing
               /\ f.emits = "none" /\ feeds'[p].emits = "close"
               /\ sessions'.freeList = Append(sessions.freeList, f.id)
          /\ f.emits = "close" => feeds'[p].emits = "close" \/ feeds'[p].closed
          /\ f.closed => feeds'[p].closed]_vars

\* two close calls waited on one close request of a feed, and the daemon
\* rejected it: both are about to fail
C4_Witness ==
  \E p \in Proxies : \E o1, o2 \in CloseWaiters(p) :
    /\ o1 # o2
    /\ ops[o1].phase = "closeErr" /\ ops[o2].phase = "closeErr"
    /\ last = Call("closeReject", p)

NumReqs(w, type) == Cardinality({i \in 1..Len(w) : w[i].type = type})
Awaiting(p) == {o \in Slots : ops[o].p = p /\ ops[o].phase = "awaitOpen"}

\* C2: opening a feed is single-flight.  While the open request of a feed is
\* in flight no step sends another one for it, whoever calls (ready, a data
\* operation, the constructor of an eager feed); a call made meanwhile
\* (and not refused for its argument) joins the callers waiting on that
\* open; calls wait only on an open in flight; and when the open is over all
\* of them get the same outcome.
C2_SingleFlightOpen ==
  [][\A p \in Proxies :
       LET f == feeds[p]
           mine == last'.p = p
       IN /\ (mine /\ f.opening) => NumReqs(wire', "open") = 0
          /\ mine => NumReqs(wire', "open") <= 1
          /\ (mine /\ f.opening /\ last'.op \in {"ready", "data"}
                   /\ thrown' \notin {ErrUndownload, ErrTypeError}) =>
               \E o \in Slots : ops[o].phase = "free" /\ ops'[o].phase = "awaitOpen"
                                /\ ops'[o].p = p
          /\ \A o \in Slots :
               (ops'[o].p = p /\ ops'[o].phase = "awaitOpen") => feeds'[p].opening
          /\ (f.opening /\ ~feeds'[p].opening) =>
               \A o \in Awaiting(p) :
                 ops'[o].phase = IF feeds'[p].opened THEN "openOk" ELSE "openErr"]_vars

\* two calls wait on the one open request the constructor of an eager feed
\* sent
C2_Witness ==
  \E p \in Proxies :
    /\ ~feeds[p].lazy /\ feeds[p].opening
    /\ Cardinality(Awaiting(p)) >= 2

\* C3: a data operation, lock or registerExtension invoked on a closed feed
\* sends nothing on the RPC channel and fails: the call throws, or it is
\* left with the refusal of open() ('Resource is closed'), which it gets as
\* soon as it resumes.
C3_ClosedNoRpc ==
  [][\A p \in Proxies :
       (/\ feeds[p].closed
        /\ \/ \E kind \in DataKinds, dl \in {Undef, NotDownload} \cup ResIds :
                dataOp(p, kind, dl)
           \/ \E onlocked \in BOOLEAN : lock(p, onlocked)
           \/ registerExtension(p)) =>
         /\ wire' = <<>>
         /\ \/ thrown' # NoErr
            \/ \E o \in Slots : ops[o].phase = "free" /\ ops'[o].phase = "openClosed"]_vars

RegType == "registerExtensionNoReply"

\* C8: a registration request of an extension channel is only ever sent for
\* a feed whose open has completed: registered while the open of its feed is
\* not over, a channel waits and sends its one request after it.
C8_RegisteredAfterOpen ==
  NumReqs(wire, RegType) > 0 => (last.p # NoProxy /\ feeds[last.p].opened)

\* C9: cancelling the promise of a get that has not settled sends exactly
\* one cancellation request and settles the promise (as cancelled);
\* cancelling one that has settled sends nothing; neither call fails.
C9_CancelGet ==
  [][\A p \in Proxies, o \in {0} \cup Slots :
       cancel(p, o) =>
         /\ thrown' = NoErr
         /\ IF o # 0 THEN NumReqs(wire', "cancel") = 1 /\ ops'[o].phase = "free"
                     ELSE wire' = <<>>]_vars

IsDataReq(m) == m.type \in DataKinds

\* C10: a data operation called, with an argument its method accepts, on a
\* lazy feed that has no session id yet sends the open request and nothing
\* else, and waits, with the id it took bound to the feed; a data request
\* only ever leaves from a feed that is opened, carrying the session id that
\* feed has; a waiting operation whose open failed fails and sends nothing.
C10_OpenThenRequest ==
  [][/\ \A p \in Proxies, kind \in DataKinds, dl \in {Undef, NotDownload} \cup ResIds :
          (/\ dataOp(p, kind, dl) /\ ~(kind = "undownload" /\ dl \in {Undef, NotDownload})
           /\ feeds[p].lazy /\ feeds[p].id = Undef /\ ~feeds[p].closed) =>
            /\ feeds'[p].id # Undef
            /\ get(sessions', feeds'[p].id) = p
            /\ wire' = <<OpenReq(feeds'[p].id)>>
            /\ \E o \in Slots : ops[o].phase = "free" /\ ops'[o].phase = "awaitOpen"
                                /\ ops'[o].kind = kind
     /\ \A i \in 1..Len(wire') :
          IsDataReq(wire'[i]) =>
            /\ feeds[last'.p].opened
            /\ wire'[i].id = feeds[last'.p].id
            /\ wire'[i].id # Undef
     /\ \A o \in Slots :
          (ops[o].kind \in DataKinds /\ ops[o].phase = "openErr" /\ ops'[o] # ops[o]) =>
            /\ wire' = <<>>
            /\ thrown' # NoErr
            /\ ops'[o].phase = "free"]_vars

\* the request of a data operation that waited for the open of a lazy feed
\* has just been sent
C10_Witness ==
  /\ last.op = "continue"
  /\ feeds[last.p].lazy
  /\ \E i \in 1..Len(wire) : IsDataReq(wire[i])

Bound(id) == id \in DOMAIN sessions.remoteBases

\* C5: a push notification (append, close, peer-open, peer-remove,
\* extension message) naming a session id the registry does not bind raises
\* the error 'Invalid RemoteDDatabase ID.', changes no feed, the registry,
\* no pending call and no extension, sends nothing and emits no event.
C5_UnboundIdIsFatal ==
  [][\A id \in Ids :
       (/\ ~Bound(id)
        /\ \/ \E length \in 0..MaxLen, byteLength \in 0..MaxBytes :
                onAppend(id, length, byteLength)
           \/ onClose(id)
           \/ \E key \in Keys : onPeerOpen(id, key)
           \/ \E key \in Keys : onPeerRemove(id, key)
           \/ \E rid \in ResIds, key \in Keys : onExtension(id, rid, key)) =>
         /\ thrown' = ErrInvalidId
         /\ wire' = <<>> /\ emitted' = <<>>
         /\ UNCHANGED <<sessions, feeds, ops, exts, closeSent>>]_vars

\* a notification arrived for the id of a feed that was closed and freed
C5_Witness ==
  /\ thrown = ErrInvalidId
  /\ last.op = "onAppend"
  /\ \E p \in Proxies : /\ feeds[p].opened /\ feeds[p].closed
                        /\ ~Bound(feeds[p].id)

FirstMatch(peers, key) ==
  {i \in 1..Len(peers) : /\ peers[i].remotePublicKey = key
                         /\ \A j \in 1..(i - 1) : peers[j].remotePublicKey # key}
RemoveAt(seq, i) == [j \in 1..(Len(seq) - 1) |-> IF j < i THEN seq[j] ELSE seq[j + 1]]

\* C6: a peer-remove notification for a bound feed whose key matches no
\* entry of the feed's peer list raises an error, leaves the list as it was
\* and emits no peer-remove event; when an entry matches, exactly the first
\* matching entry is removed, the others keep their order, and peer-remove
\* is emitted with the removed peer.
C6_PeerRemove ==
  [][\A id \in Ids, key \in Keys :
       (Bound(id) /\ onPeerRemove(id, key)) =>
         LET p == sessions.remoteBases[id]
             peers == feeds[p].peers
             m == FirstMatch(peers, key)
         IN IF m = {}
              THEN /\ thrown' = ErrPeer
                   /\ feeds' = feeds
                   /\ emitted' = <<>>
              ELSE \E i \in m :
                     /\ thrown' = NoErr
                     /\ feeds'[p].peers = RemoveAt(peers, i)
                     /\ Len(feeds'[p].peers) = Len(peers) - 1
                     /\ emitted' = <<[event |-> "peer-remove", p |-> p, peer |-> peers[i]]>>
                     /\ \A q \in Proxies \ {p} : feeds'[q] = feeds[q]]_vars

\* a peer-remove for an absent key reached a feed that lists another peer
C6_Witness ==
  /\ last.op = "onPeerRemove"
  /\ thrown = ErrPeer
  /\ last.p # NoProxy /\ Len(feeds[last.p].peers) > 0

\* C7: an extension message for a bound feed goes to the channel registered
\* on the feed under the message's resource id, with the sending peer; when
\* no channel is registered under that id it is dropped and no error is
\* raised.
C7_RoutedOrDropped ==
  [][\A id \in Ids, rid \in ResIds, key \in Keys :
       (Bound(id) /\ onExtension(id, rid, key)) =>
         LET p == sessions.remoteBases[id]
         IN IF rid \in feeds[p].extensions
              THEN /\ thrown' = NoErr
                   /\ Len(emitted') = 1
                   /\ emitted'[1].event = "onmessage" /\ emitted'[1].ext = rid
                   /\ emitted'[1].peer.remotePublicKey = key
              ELSE thrown' = NoErr /\ emitted' = <<>>]_vars

\* C11: lock() does not open the feed.  Called on a feed that is not opened
\* (never opened, or with its open in flight) it throws the usage error at
\* once, sends no request at all (neither open nor acquireLock), starts no
\* open and leaves no pending call.
C11_LockNeedsOpen ==
  [][\A p \in Proxies, onlocked \in BOOLEAN :
       (lock(p, onlocked) /\ ~feeds[p].opened) =>
         /\ thrown' = ErrLock
         /\ wire' = <<>>
         /\ UNCHANGED <<sessions, feeds, ops>>]_vars

\* lock was called while the open of its feed was in flight
C11_Witness ==
  /\ last.op = "lock" /\ thrown = ErrLock
  /\ feeds[last.p].opening /\ ~feeds[last.p].opened

\* C12 as stated: a close notice for a bound id leaves the addressed feed
\* closed and its id on the free list, and no close request is sent.
C12_NoticeClosesWithoutRequest ==
  [][\A id \in Ids :
       (Bound(id) /\ onClose(id)) =>
         LET p == sessions.remoteBases[id]
         IN /\ feeds'[p].closed
            /\ ~Bound(id)'
            /\ NumReqs(wire', "close") = 0]_vars

\* C12 amended: a close notice for a bound id makes the client run its own
\* close on the addressed feed.  The notice itself never frees the id and
\* never leaves an opened feed closed: an opened feed with no close in
\* flight sends the close request for its own id and is closing, a feed that
\* is closing sends nothing, a feed with its open in flight closes once the
\* open is answered.
C12_NoticeRunsClose ==
  [][\A id \in Ids :
       (Bound(id) /\ onClose(id)) =>
         LET p == sessions.remoteBases[id]
             f == feeds[p]
         IN /\ sessions' = sessions
            /\ thrown' = NoErr
            /\ (f.opened /\ ~f.closing /\ ~f.closed) =>
                 /\ wire' = <<CloseReq(f.id)>>
                 /\ feeds'[p].closing /\ ~feeds'[p].closed
            /\ f.closing => wire' = <<>> /\ feeds' = feeds
            /\ f.opening => wire' = <<>> /\ feeds'[p].preclosing /\ ~feeds'[p].closed
            /\ f.opened => feeds'[p].closed = f.closed]_vars

\* a close notice has just made an opened feed send its close request
C12_Witness ==
  /\ last.op = "onClose" /\ last.p # NoProxy
  /\ feeds[last.p].closing /\ ~feeds[last.p].closed
  /\ wire = <<CloseReq(feeds[last.p].id)>>

Downloads == {o \in Slots : ops[o].kind = "download" /\ ops[o].phase # "free"}

\* C13: the resource ids createResourceId hands out strictly increase and
\* never repeat.  Every download and every extension registration, on
\* whichever feed of the store or of its namespace, takes the next value of
\* the one counter, no other step moves the counter (closing a feed and
\* handing its session id to another feed included), and so downloads and
\* extensions never share a resource id.
C13_ResourceIdsDistinct ==
  [][LET rc == sessions.resourceCounter
     IN /\ sessions'.resourceCounter \in {rc, rc + 1}
        /\ last'.op \notin {"data", "registerExtension"} => sessions'.resourceCounter = rc
        /\ \A p \in Proxies :
             dataOp(p, "download", Undef) =>
               /\ sessions'.resourceCounter = rc + 1
               /\ \A o \in Slots : ops'[o] # ops[o] => ops'[o].rid = rc
               /\ \A i \in 1..Len(wire') :
                    wire'[i].type = "download" => wire'[i].resourceId = rc
        /\ \A p \in Proxies :
             registerExtension(p) =>
               /\ sessions'.resourceCounter = rc + 1
               /\ exts[rc].feed = NoProxy /\ exts'[rc].feed = p
               /\ \A r \in ResIds \ {rc} : exts'[r] = exts[r]
        /\ \A o \in Downloads' :
             /\ ops'[o].rid < sessions'.resourceCounter
             /\ exts'[ops'[o].rid].feed = NoProxy
             /\ \A o2 \in Downloads' \ {o} : ops'[o2].rid # ops'[o].rid
        /\ \A r \in ResIds : exts'[r].feed # NoProxy => r < sessions'.resourceCounter]_vars

\* a feed of one store registered an extension and was closed; a feed of the
\* other store took over its session id and has a download in progress,
\* whose resource id is a later one
C13_Witness ==
  \E p, q \in Proxies :
    /\ StoreOf(p) # StoreOf(q)
    /\ feeds[p].opened /\ feeds[p].closed
    /\ feeds[q].id = feeds[p].id /\ get(sessions, feeds[q].id) = q
    /\ \E r \in ResIds, o \in Downloads :
         /\ exts[r].feed = p
         /\ ops[o].p = q
         /\ ops[o].rid > r

Used(s) == DOMAIN s.remoteBases \cup {s.freeList[i] : i \in 1..Len(s.freeList)}

\* C14: session ids are reused last-freed first.  delete(id) leaves id on
\* top of the free list, and create with a non-empty free list takes exactly
\* the top (the most recently freed id) and leaves the rest and the counter
\* alone; with an empty free list create takes the counter's value, an
\* integer never used before, and advances the counter.
C14_LifoReuse ==
  [][/\ \A id \in Ids :
          sessionsDelete(id) =>
            /\ sessions'.freeList = Append(sessions.freeList, id)
            /\ id \notin DOMAIN sessions'.remoteBases
     /\ \A remoteBase \in Proxies :
          sessionsCreate(remoteBase) =>
            LET n == Len(sessions.freeList)
                id == IF n > 0 THEN sessions.freeList[n] ELSE sessions.counter
            IN /\ DOMAIN sessions'.remoteBases = DOMAIN sessions.remoteBases \cup {id}
               /\ sessions'.remoteBases[id] = remoteBase
               /\ id \notin DOMAIN sessions.remoteBases
               /\ IF n > 0
                    THEN /\ sessions'.freeList = SubSeq(sessions.freeList, 1, n - 1)
                         /\ sessions'.counter = sessions.counter
                    ELSE /\ sessions'.freeList = <<>>
                         /\ sessions'.counter = sessions.counter + 1
                         /\ \A u \in Used(sessions) : u < id]_vars

\* create has just reused the id on top of a free list that held two ids or
\* more
C14_Witness ==
  /\ last.op = "create"
  /\ Len(sessions.freeList) >= 1
  /\ DOMAIN sessions.remoteBases # {}

\* the minLength the claim expects of update(opts) on a feed of this length
ExpectedMinLength(opts, length) ==
  IF opts.a # Absent THEN opts.a ELSE length + 1

\* C15: update sends minLength = the feed's current length + 1 whenever no
\* minLength is supplied (no argument at all, only a callback, or options
\* without minLength), and the number itself when given a number or a
\* minLength; it does so whether it sends at once or after waiting for the
\* open.
C15_UpdateMinLength ==
  [][/\ \A p \in Proxies, opts \in UpdateInputs :
          (update(p, opts) /\ feeds[p].opened /\ ~feeds[p].closed) =>
            /\ thrown' = NoErr
            /\ wire' = <<UpdateReq(feeds[p].id, ExpectedMinLength(opts, feeds[p].length))>>
     /\ \A o \in Slots :
          (/\ continue(o)
           /\ ops[o].kind = "update" /\ ops[o].phase = "openOk"
           /\ ~feeds[ops[o].p].closed) =>
            LET f == feeds[ops[o].p]
            IN /\ thrown' = NoErr
               /\ wire' = <<UpdateReq(f.id, ExpectedMinLength(ops[o].arg, f.length))>>]_vars

Elems(seq) == {seq[i] : i \in 1..Len(seq)}
SetMin(S) == CHOOSE x \in S : \A y \in S : x <= y
SetMax(S) == CHOOSE x \in S : \A y \in S : x >= y
Covers(m) ==
  /\ m.start = SetMin(Elems(m.blocks))
  /\ m.end = SetMax(Elems(m.blocks)) + 1

\* C16: download called with blocks (an array, or { blocks }), in any
\* order, sends the block list as given together with start = the least
\* block and end = the greatest block + 1, whether the request leaves at
\* once or after waiting for the open.
C16_DownloadBlocksInterval ==
  [][/\ \A p \in Proxies, range \in BlockInputs :
          (download(p, range) /\ range.blocks # <<>>) =>
            /\ \A i \in 1..Len(wire') :
                 wire'[i].type = "download" =>
                   /\ wire'[i].hasBlocks /\ wire'[i].blocks = range.blocks
                   /\ Covers(wire'[i])
            /\ \A o \in Slots :
                 ops'[o] # ops[o] =>
                   ops'[o].arg = Arg("range", SetMin(Elems(range.blocks)),
                                     SetMax(Elems(range.blocks)) + 1, TRUE, range.blocks)
     /\ \A o \in Slots :
          (continue(o) /\ ops[o].kind = "download" /\ ops[o].arg.blocks # <<>>) =>
            \A i \in 1..Len(wire') :
              /\ wire'[i].type = "download"
              /\ wire'[i].blocks = ops[o].arg.blocks
              /\ Covers(wire'[i])]_vars

\* a download of three blocks given out of order has sent its request
C16_Witness ==
  \E i \in 1..Len(wire) :
    /\ wire[i].type = "download"
    /\ Len(wire[i].blocks) = 3
    /\ wire[i].blocks[2] < wire[i].blocks[1]
    /\ wire[i].blocks[1] < wire[i].blocks[3]

\* C17: send(payload, peer) sends one message carrying the feed's session
\* id, the channel's resource id and the public key of the peer it is given;
\* broadcast sends the same message with a null key.
C17_SendNamesPeer ==
  [][\A rid \in ResIds, k \in Keys :
       /\ (send(rid, PeerObj(k)) /\ feeds[exts[rid].feed].id # Undef) =>
            wire' = <<SendReq(feeds[exts[rid].feed].id, rid, k)>>
       /\ (broadcast(rid) /\ feeds[exts[rid].feed].id # Undef) =>
            wire' = <<SendReq(feeds[exts[rid].feed].id, rid, NullKey)>>]_vars

\* C18: a session id goes on the free list only at the acknowledgement of
\* the close request of the feed that holds it: the step that frees an id is
\* the answer to a close request that was sent and is in flight, it frees
\* the id of that feed and has the feed emit "close"; the id of a feed whose
\* close was not acknowledged (close not asked, not sent, in flight or
\* rejected) is never on the free list.
C18_FreedOnlyAfterAck ==
  [][/\ \A id \in Ids :
          (id \notin Elems(sessions.freeList) /\ id \in Elems(sessions'.freeList)) =>
            \E p \in Proxies :
              /\ last' = Call("closeResponse", p)
              /\ feeds[p].id = id
              /\ feeds[p].closing /\ closeSent[p]
              /\ feeds[p].emits = "none" /\ feeds'[p].emits = "close"
     /\ \A p \in Proxies :
          (feeds'[p].id # Undef /\ ~feeds'[p].closed /\ feeds'[p].emits # "close") =>
            feeds'[p].id \notin Elems(sessions'.freeList)]_vars

\* the close request of a feed has just been acknowledged and its id is on
\* the free list
C18_Witness ==
  /\ last.op = "closeResponse"
  /\ feeds[last.p].closing /\ feeds[last.p].emits = "close"
  /\ feeds[last.p].id \in Elems(sessions.freeList)

BoundIds(p) == {id \in DOMAIN sessions.remoteBases : sessions.remoteBases[id] = p}

\* C19: constructing a lazy feed leaves the registry as it was and the feed
\* without a session id, and the feed stays unbound, with no open started,
\* until a call that opens it (ready, a data operation, or the ready an
\* extension registration calls) takes the id and sends the open request;
\* constructing an eager feed binds its id and sends its open request in
\* the constructor, before any answer.
C19_LazyAndEagerBinding ==
  [][\A p \in Proxies :
       /\ RemoteDDatabase(p, TRUE) =>
            /\ sessions' = sessions
            /\ feeds'[p].id = Undef
            /\ wire' = <<>>
       /\ RemoteDDatabase(p, FALSE) =>
            /\ feeds'[p].id # Undef
            /\ BoundIds(p)' = {feeds'[p].id}
            /\ wire' = <<OpenReq(feeds'[p].id)>>
            /\ feeds'[p].opening /\ ~feeds'[p].opened
       /\ (feeds[p].made /\ feeds[p].id = Undef) =>
            /\ feeds[p].lazy
            /\ BoundIds(p) = {}
            /\ ~feeds[p].opening /\ ~feeds[p].opened
       /\ (feeds[p].made /\ feeds[p].id = Undef /\ feeds'[p].id # Undef) =>
            /\ last' \in {Call(op, p) : op \in {"ready", "data", "registerExtension"}}
            /\ BoundIds(p)' = {feeds'[p].id}
            /\ wire' = <<OpenReq(feeds'[p].id)>>
            /\ feeds'[p].opening]_vars

\* a data operation has just given a lazy feed its session id
C19_Witness ==
  /\ last.op = "data"
  /\ feeds[last.p].lazy /\ feeds[last.p].opening
  /\ BoundIds(last.p) = {feeds[last.p].id}
  /\ wire = <<OpenReq(feeds[last.p].id)>>

\* C20: at any time a feed is bound to at most one session id in the
\* registry, also after the open of a lazy feed failed and was tried again.
C20_OneIdPerFeed ==
  \A p \in Proxies : Cardinality(BoundIds(p)) <= 1

\* C21: whatever the order of constructions (lazy or eager), opens
\* (answered or rejected), closes and close notices, the free list holds no
\* id twice, holds only integers the session counter has issued (never the
\* undefined id of a lazy feed closed before it was opened), and holds no id
\* the registry binds.
C21_FreeListSound ==
  LET fl == sessions.freeList
  IN /\ \A i, j \in 1..Len(fl) : i # j => fl[i] # fl[j]
     /\ \A i \in 1..Len(fl) : fl[i] \in 0..(sessions.counter - 1)
     /\ Elems(fl) \cap DOMAIN sessions.remoteBases = {}

\* a lazy feed was closed before it was opened, and the close of another
\* feed has just been acknowledged and has freed its id
C21_Witness ==
  /\ \E p \in Proxies : feeds[p].lazy /\ feeds[p].closed /\ feeds[p].id = Undef
  /\ Len(sessions.freeList) >= 1
  /\ last.op = "closeResponse"

PeerKeys(peers) == {peers[i].remotePublicKey : i \in 1..Len(peers)}

\* C22: no peer-open delivered while the open request is in flight is lost.
\* While a feed is opening its peer list holds exactly the peers delivered
\* by peer-open and not removed since; when the open is answered every one
\* of them is still in the list.
C22_PeerOpenSurvivesOpen ==
  [][\A p \in Proxies, rsp \in OpenRsps :
       openResponse(p, rsp) => PeerKeys(feeds[p].peers) \subseteq PeerKeys(feeds'[p].peers)]_vars

====
